---- MODULE Spec2Model ----
(***************************************************************************)
(* A model of the affine / orientation core of medio:                      *)
(*   medio/utils/two_way_dict.py        TwoWayDict                         *)
(*   medio/metadata/itk_orientation.py  AxCodes, itk_orientation_code,     *)
(*                                      codes_str_dict                     *)
(*   medio/metadata/affine.py           Affine                             *)
(*   medio/metadata/convert_nib_itk.py  AXES_INV, inv_axcodes,             *)
(*                                      convert_affine, convert_nib_itk    *)
(*                                                                         *)
(* Python values are modelled as follows.                                  *)
(*  - dictionary keys are tagged records (None, PyStr(s), PyInt(n)) so that    *)
(*    None, strings and integers can live in one dictionary;               *)
(*  - a string is the sequence of its characters;                          *)
(*  - a float is an exact rational <<n, d>> in lowest terms with d > 0,    *)
(*    extended with the IEEE specials <<1,0>> (+inf), <<-1,0>> (-inf) and  *)
(*    <<0,0>> (nan); rounding and the sign of zero are not modelled;       *)
(*  - a raised exception is recorded in the variable raised.               *)
(***************************************************************************)
EXTENDS Integers, Sequences, FiniteSets, TLC

VARIABLES
    twd,             \* a TwoWayDict instance under test
    codes_str_dict,  \* itk_orientation.codes_str_dict
    pos,             \* progress of the import of itk_orientation (-1: before line 52)
    aff,             \* an Affine instance (NoAffine before construction)
    held,            \* the arguments of the first convert_nib_itk call
    AXES_INV,        \* convert_nib_itk.AXES_INV
    conv,            \* the values passed to / returned by convert_nib_itk
    op,              \* the last call: <<name, arguments...>>
    raised,          \* the exception the last call raised, or NoError
    ret              \* the value the last call returned

vars == <<twd, codes_str_dict, pos, aff, held, AXES_INV, conv, op, raised, ret>>

NoError == "none"
KeyError == "KeyError"
AttributeError == "AttributeError"
ValueError == "ValueError"

(***************************************************************************)
(* Python values                                                           *)
(***************************************************************************)
None == [t |-> "none", s |-> <<>>, n |-> 0]
PyStr(s) == [t |-> "str", s |-> s, n |-> 0]
PyInt(n) == [t |-> "int", s |-> <<>>, n |-> n]

EmptyDict == [x \in {} |-> None]

\* dict.__contains__
DictHas(d, key) == key \in DOMAIN d

\* dict.__setitem__ of the built-in dict
DictSet(d, key, value) ==
    [x \in (DOMAIN d) \cup {key} |-> IF x = key THEN value ELSE d[x]]

\* dict.__delitem__ of the built-in dict (the key is present)
DictDel(d, key) == [x \in (DOMAIN d) \ {key} |-> d[x]]

Ok(d) == [dict |-> d, raised |-> NoError]
Raise(d, e) == [dict |-> d, raised |-> e]

(***************************************************************************)
(* medio/utils/two_way_dict.py                                             *)
(***************************************************************************)

\* TwoWayDict.__delitem__: the result is the dictionary as the call leaves it
\* and the exception it raised, if any.
TwoWayDict__delitem__(self, key) ==
    IF ~DictHas(self, key) THEN Raise(self, KeyError)              \* self[key]
    ELSE LET x == self[key] IN
         IF ~DictHas(self, x) THEN Raise(self, KeyError)
         ELSE LET d1 == DictDel(self, x) IN
              IF ~DictHas(d1, key) THEN Raise(d1, KeyError)
              ELSE Ok(DictDel(d1, key))

\* a variant of __setitem__ that forgets to remove the previous connection of
\* the value
SetitemKeepsValueLink(self, key, value) ==
    LET r1 == IF DictHas(self, key) THEN TwoWayDict__delitem__(self, key) ELSE Ok(self)
    IN  IF r1.raised # NoError THEN r1
        ELSE Ok(DictSet(DictSet(r1.dict, key, value), value, key))

\* TwoWayDict.__setitem__
TwoWayDict__setitem__(self, key, value) ==
    LET r1 == IF DictHas(self, key) THEN TwoWayDict__delitem__(self, key) ELSE Ok(self)
    IN  IF r1.raised # NoError THEN r1
        ELSE LET r2 == IF DictHas(r1.dict, value)
                       THEN TwoWayDict__delitem__(r1.dict, value)
                       ELSE Ok(r1.dict)
             IN  IF r2.raised # NoError THEN r2
                 ELSE Ok(DictSet(DictSet(r2.dict, key, value), value, key))

\* TwoWayDict.__len__
TwoWayDict__len__(self) == Cardinality(DOMAIN self) \div 2

\* dict.__getitem__, which TwoWayDict inherits
TwoWayDict__getitem__(self, key) ==
    IF DictHas(self, key) THEN [value |-> self[key], raised |-> NoError]
    ELSE [value |-> None, raised |-> KeyError]

(***************************************************************************)
(* Floats: exact rationals with the IEEE specials                          *)
(***************************************************************************)
Sign(n) == IF n > 0 THEN 1 ELSE IF n < 0 THEN -1 ELSE 0
Abs(n) == IF n < 0 THEN -n ELSE n

RECURSIVE GCD(_, _)
GCD(a, b) == IF b = 0 THEN a ELSE GCD(b, a % b)

\* the float n/d; d = 0 gives +inf, -inf or nan by the sign of n
Frac(n, d) ==
    IF d = 0 THEN <<Sign(n), 0>>
    ELSE LET g == GCD(Abs(n), Abs(d)) IN <<(Sign(d) * n) \div g, Abs(d) \div g>>

F(n) == <<n, 1>>
NaN == <<0, 0>>
Inf == <<1, 0>>
IsFinite(a) == a[2] # 0
IsNaN(a) == a = NaN

FMul(a, b) == Frac(a[1] * b[1], a[2] * b[2])
\* a / b as numpy divides: x/0 is +-inf, 0/0 is nan (a warning, no exception)
FDiv(a, b) == IF b[1] < 0 THEN Frac(-(a[1] * b[2]), a[2] * (-b[1]))
              ELSE Frac(a[1] * b[2], a[2] * b[1])
FAdd(a, b) ==
    IF IsNaN(a) \/ IsNaN(b) THEN NaN
    ELSE IF ~IsFinite(a) /\ ~IsFinite(b) THEN (IF a = b THEN a ELSE NaN)
    ELSE IF ~IsFinite(a) THEN a
    ELSE IF ~IsFinite(b) THEN b
    ELSE Frac(a[1] * b[2] + b[1] * a[2], a[2] * b[2])
FNeg(a) == <<-a[1], a[2]>>
FAbs(a) == <<Abs(a[1]), a[2]>>

\* the least r in lo..hi with r * r >= n, by bisection
RECURSIVE RootIn(_, _, _)
RootIn(n, lo, hi) ==
    IF lo >= hi THEN lo
    ELSE LET mid == (lo + hi) \div 2 IN
         IF mid * mid >= n THEN RootIn(n, lo, mid) ELSE RootIn(n, mid + 1, hi)
IsSquare(n) == n >= 0 /\ RootIn(n, 0, n) * RootIn(n, 0, n) = n
\* the integer square root of a perfect square (of nothing else: the choice
\* from the empty set has no value)
ISqrt(n) == IF IsSquare(n) THEN RootIn(n, 0, n) ELSE CHOOSE r \in {} : TRUE
\* the square root of a float that is not negative; the inputs of the model
\* are chosen so that every norm taken is rational
FSqrt(a) == IF ~IsFinite(a) THEN a ELSE <<ISqrt(a[1]), ISqrt(a[2])>>
HasSqrt(a) == ~IsFinite(a) \/ (a[1] >= 0 /\ IsSquare(a[1]) /\ IsSquare(a[2]))

\* == of two floats: nan is equal to nothing
FEq(a, b) == ~IsNaN(a) /\ ~IsNaN(b) /\ a = b

(***************************************************************************)
(* numpy arrays: a vector is a sequence of floats, a matrix a sequence of  *)
(* rows                                                                    *)
(***************************************************************************)
\* an array held as a sequence of its entries (the \o makes TLC compute the
\* entries once instead of at every use)
Array(f) == f \o <<>>

RECURSIVE FSum(_)
FSum(v) == IF v = <<>> THEN F(0) ELSE FAdd(v[1], FSum(Tail(v)))

NRows(A) == Len(A)
NCols(A) == Len(A[1])

\* A @ B
MatMul(A, B) ==
    Array([i \in 1..NRows(A) |->
        Array([j \in 1..NCols(B) |->
            FSum(Array([k \in 1..NCols(A) |-> FMul(A[i][k], B[k][j])]))])])

\* A @ x for a vector x
MatVec(A, x) ==
    Array([i \in 1..NRows(A) |->
        FSum(Array([k \in 1..NCols(A) |-> FMul(A[i][k], x[k])]))])

VecAdd(x, y) == Array([i \in 1..Len(x) |-> FAdd(x[i], y[i])])

\* np.eye(n)
Eye(n) == Array([i \in 1..n |-> Array([j \in 1..n |-> IF i = j THEN F(1) ELSE F(0)])])

\* np.diag(v)
Diag(v) ==
    Array([i \in 1..Len(v) |-> Array([j \in 1..Len(v) |-> IF i = j THEN v[i] ELSE F(0)])])

\* np.linalg.norm(A, axis=0)
ColNorms(A) ==
    Array([j \in 1..NCols(A) |->
        FSqrt(FSum(Array([i \in 1..NRows(A) |-> FMul(FAbs(A[i][j]), FAbs(A[i][j]))])))])

\* np.abs(v)
VecAbs(v) == Array([i \in 1..Len(v) |-> FAbs(v[i])])

\* elementwise x / y
VecDiv(x, y) == Array([i \in 1..Len(x) |-> FDiv(x[i], y[i])])

\* 1 / y
VecRecip(y) == Array([i \in 1..Len(y) |-> FDiv(F(1), y[i])])

\* elementwise == of two arrays, all of it
VecEq(x, y) == Len(x) = Len(y) /\ \A i \in 1..Len(x) : FEq(x[i], y[i])
MatEq(A, B) == Len(A) = Len(B) /\ \A i \in 1..Len(A) : VecEq(A[i], B[i])

(***************************************************************************)
(* medio/metadata/affine.py                                                *)
(***************************************************************************)

\* affine[Affine._m_key], the upper-left d x d block
m_key(affine) ==
    Array([i \in 1..(Len(affine) - 1) |->
        Array([j \in 1..(Len(affine) - 1) |-> affine[i][j]])])

\* affine[Affine._origin_key], the last column without the bottom row
origin_key(affine) == Array([i \in 1..(Len(affine) - 1) |-> affine[i][Len(affine)]])

\* affine[Affine._m_key] = value
set_m_key(affine, value) ==
    Array([i \in 1..Len(affine) |-> Array([j \in 1..Len(affine) |->
        IF i < Len(affine) /\ j < Len(affine) THEN value[i][j] ELSE affine[i][j]])])

\* affine[Affine._origin_key] = value
set_origin_key(affine, value) ==
    Array([i \in 1..Len(affine) |-> Array([j \in 1..Len(affine) |->
        IF i < Len(affine) /\ j = Len(affine) THEN value[i] ELSE affine[i][j]])])

\* Affine.construct_affine
construct_affine(direction, spacing, origin) ==
    LET dim == Len(direction)
        affine == Eye(dim + 1)
    IN  set_origin_key(set_m_key(affine, MatMul(direction, Diag(spacing))), origin)

\* Affine.affine2origin
affine2origin(affine) == origin_key(affine)

\* Affine.affine2spacing
affine2spacing(affine) ==
    LET dim == Len(affine) - 1 IN ColNorms(MatMul(m_key(affine), Eye(dim)))

\* a decomposition that leaves the spacing inside the direction
Affine2DirectionUnscaled(affine, spacing) == Array(m_key(affine))

\* Affine.affine2direction, with the spacing given
affine2direction(affine, spacing) == MatMul(m_key(affine), Diag(VecRecip(spacing)))

NoMatrix == <<>>
NoAffine == [matrix |-> NoMatrix, _spacing |-> <<>>, _direction |-> <<>>]

\* Affine.__new__ and Affine.__init__: Affine(affine) or
\* Affine(direction=..., spacing=..., origin=...)
Affine__init__(affine, direction, spacing, origin) ==
    IF affine = NoMatrix
    THEN [matrix |-> construct_affine(direction, spacing, origin),
          _spacing |-> spacing,
          _direction |-> direction]
    ELSE [matrix |-> affine,
          _spacing |-> affine2spacing(affine),
          _direction |-> affine2direction(affine, affine2spacing(affine))]

\* the property getters
Affine_origin(self) == origin_key(self.matrix)
Affine_spacing(self) == self._spacing
Affine_direction(self) == self._direction
Affine_m_matrix(self) == m_key(self.matrix)

\* Affine.origin setter
Affine_set_origin(self, value) ==
    [self EXCEPT !.matrix = set_origin_key(self.matrix, value)]

\* Affine.spacing setter
Affine_set_spacing(self, value) ==
    [self EXCEPT
        !.matrix = set_m_key(self.matrix,
                       MatMul(Affine_m_matrix(self), Diag(VecDiv(value, self._spacing)))),
        !._spacing = VecAbs(value)]

\* Affine.direction setter
Affine_set_direction(self, value) ==
    [self EXCEPT
        !.matrix = set_m_key(self.matrix, MatMul(value, Diag(Affine_spacing(self)))),
        !._direction = value]

\* a mapping of indices that leaves the origin out
Index2CoordWithoutOrigin(self, index_vector) == MatVec(Affine_m_matrix(self), index_vector)

\* Affine.index2coord
Affine_index2coord(self, index_vector) ==
    VecAdd(MatVec(Affine_m_matrix(self), index_vector), Affine_origin(self))

\* Affine.clone: Affine(self.copy())
Affine_clone(self) == Affine__init__(self.matrix, <<>>, <<>>, <<>>)

(***************************************************************************)
(* medio/metadata/itk_orientation.py                                       *)
(***************************************************************************)

\* class AxCodes(IntEnum)
AxCodes == [UNKNOWN |-> 0, R |-> 2, L |-> 3, P |-> 4, A |-> 5, I |-> 8, S |-> 9]

\* bit offsets four bits apart
AxMajornessNibbles == [Primary |-> 0, Secondary |-> 4, Tertiary |-> 8]

\* class AxMajorness(IntEnum)
AxMajorness == [Primary |-> 0, Secondary |-> 8, Tertiary |-> 16]

\* class ItkOrientationCode(IntEnum), before the 48 attributes are added
ItkOrientationCode == [INVALID |-> AxCodes.UNKNOWN]

\* x << k
ShiftLeft(x, k) == x * (2 ^ k)

Returns(v) == [value |-> v, raised |-> NoError]
Raises(e) == [value |-> None, raised |-> e]

\* an encoder that shifts the tertiary letter by the secondary offset
OrientationCodeTertiaryAtSecondary(ax_code) ==
    IF \E i \in 1..Len(ax_code) : ax_code[i] \notin DOMAIN AxCodes THEN Raises(AttributeError)
    ELSE IF Len(ax_code) # 3 THEN Raises(ValueError)
    ELSE Returns(ShiftLeft(AxCodes[ax_code[1]], AxMajorness.Primary)
                 + ShiftLeft(AxCodes[ax_code[2]], AxMajorness.Secondary)
                 + ShiftLeft(AxCodes[ax_code[3]], AxMajorness.Secondary))

\* itk_orientation_code: getattr(AxCodes, axis) for every axis first, then the
\* unpacking into three names, then the packing
itk_orientation_code(ax_code) ==
    IF \E i \in 1..Len(ax_code) : ax_code[i] \notin DOMAIN AxCodes THEN Raises(AttributeError)
    ELSE IF Len(ax_code) # 3 THEN Raises(ValueError)
    ELSE Returns(ShiftLeft(AxCodes[ax_code[1]], AxMajorness.Primary)
                 + ShiftLeft(AxCodes[ax_code[2]], AxMajorness.Secondary)
                 + ShiftLeft(AxCodes[ax_code[3]], AxMajorness.Tertiary))

\* _iters
iters == <<<<"R", "L">>, <<"A", "P">>, <<"I", "S">>>>

\* itertools.product(*_iters), in the order it yields
prods ==
    [n \in 1..8 |-> <<iters[1][((n - 1) \div 4) + 1],
                      iters[2][(((n - 1) \div 2) % 2) + 1],
                      iters[3][((n - 1) % 2) + 1]>>]

\* an enumeration of the orderings that yields the first ordering twice and
\* never the last
PermutationsRepeating(t) ==
    <<<<t[1], t[2], t[3]>>, <<t[1], t[3], t[2]>>, <<t[2], t[1], t[3]>>,
      <<t[2], t[3], t[1]>>, <<t[3], t[1], t[2]>>, <<t[1], t[2], t[3]>>>>

\* itertools.permutations(t) of a 3-tuple, in the order it yields
permutations(t) ==
    <<<<t[1], t[2], t[3]>>, <<t[1], t[3], t[2]>>, <<t[2], t[1], t[3]>>,
      <<t[2], t[3], t[1]>>, <<t[3], t[1], t[2]>>, <<t[3], t[2], t[1]>>>>

\* _ax_codes_iter = itertools.chain(*map(itertools.permutations, _prods))
ax_codes_iter ==
    [n \in 1..(8 * 6) |-> permutations(prods[((n - 1) \div 6) + 1])[((n - 1) % 6) + 1]]

(***************************************************************************)
(* medio/metadata/convert_nib_itk.py                                       *)
(***************************************************************************)

\* an import that pairs S with a letter that is no axis letter
AxesInvItemsSuperiorUnpaired == <<<<"R", "L">>, <<"A", "P">>, <<"S", "X">>>>

\* the pairs the module stores in AXES_INV as it is imported
AXES_INV_items == <<<<"R", "L">>, <<"A", "P">>, <<"S", "I">>>>

\* a 2-d conversion matrix that negates the first axis only
ConvertAffMat3FirstAxisOnly == Diag(<<F(-1), F(1), F(1)>>)

\* CONVERT_AFF_MAT4 and CONVERT_AFF_MAT3
CONVERT_AFF_MAT4 == Diag(<<F(-1), F(-1), F(1), F(1)>>)
CONVERT_AFF_MAT3 == Diag(<<F(-1), F(-1), F(1)>>)

\* an inversion that builds its result back to front
RECURSIVE InvLettersReversed(_, _)
InvLettersReversed(table, axcodes) ==
    IF axcodes = <<>> THEN Returns(<<>>)
    ELSE LET c == TwoWayDict__getitem__(table, PyStr(<<Head(axcodes)>>)) IN
         IF c.raised # NoError THEN Raises(c.raised)
         ELSE LET rest == InvLettersReversed(table, Tail(axcodes)) IN
              IF rest.raised # NoError THEN rest
              ELSE Returns(rest.value \o c.value.s)

\* inv_axcodes for a string, letter by letter; the table is a parameter because
\* the module's AXES_INV is state
RECURSIVE inv_letters(_, _)
inv_letters(table, axcodes) ==
    IF axcodes = <<>> THEN Returns(<<>>)
    ELSE LET c == TwoWayDict__getitem__(table, PyStr(<<Head(axcodes)>>)) IN
         IF c.raised # NoError THEN Raises(c.raised)
         ELSE LET rest == inv_letters(table, Tail(axcodes)) IN
              IF rest.raised # NoError THEN rest
              ELSE Returns(c.value.s \o rest.value)

\* inv_axcodes
inv_axcodes(table, axcodes) ==
    IF axcodes = None THEN Returns(None)
    ELSE LET r == inv_letters(table, axcodes.s) IN
         IF r.raised # NoError THEN r ELSE Returns(PyStr(r.value))

\* a conversion that takes CONVERT_AFF_MAT4 whatever the shape of its argument
ConvertAffineAlways4(affine) ==
    LET convert_aff_mat == CONVERT_AFF_MAT4
    IN  IF NCols(convert_aff_mat) # NRows(affine.matrix) THEN Raises(ValueError)
        ELSE LET new_affine == MatMul(convert_aff_mat, affine.matrix) IN
             Returns(IF affine.isAffine
                     THEN [isAffine |-> TRUE,
                           obj |-> Affine__init__(new_affine, <<>>, <<>>, <<>>),
                           matrix |-> new_affine]
                     ELSE [isAffine |-> FALSE, obj |-> NoAffine, matrix |-> new_affine])

\* convert_affine; the argument is a plain array or an Affine, which the
\* field isAffine tells, and the result is of the same kind
convert_affine(affine) ==
    LET convert_aff_mat == IF Len(affine.matrix) = 3 THEN CONVERT_AFF_MAT3
                           ELSE CONVERT_AFF_MAT4
    IN  IF NCols(convert_aff_mat) # NRows(affine.matrix) THEN Raises(ValueError)
        ELSE LET new_affine == MatMul(convert_aff_mat, affine.matrix) IN
             Returns(IF affine.isAffine
                     THEN [isAffine |-> TRUE,
                           obj |-> Affine__init__(new_affine, <<>>, <<>>, <<>>),
                           matrix |-> new_affine]
                     ELSE [isAffine |-> FALSE, obj |-> NoAffine, matrix |-> new_affine])

\* [inv_axcodes(axcode) for axcode in axcodes]
RECURSIVE inv_axcodes_list(_, _)
inv_axcodes_list(table, axcodes) ==
    IF axcodes = <<>> THEN Returns(<<>>)
    ELSE LET h == inv_axcodes(table, Head(axcodes)) IN
         IF h.raised # NoError THEN Raises(h.raised)
         ELSE LET rest == inv_axcodes_list(table, Tail(axcodes)) IN
              IF rest.raised # NoError THEN rest
              ELSE Returns(<<h.value>> \o rest.value)

\* convert_nib_itk
convert_nib_itk(table, affine, axcodes) ==
    LET new_affine == convert_affine(affine) IN
    IF new_affine.raised # NoError THEN Raises(new_affine.raised)
    ELSE LET new_axcodes == inv_axcodes_list(table, axcodes) IN
         IF new_axcodes.raised # NoError THEN Raises(new_axcodes.raised)
         ELSE Returns([affine |-> new_affine.value, axcodes |-> new_axcodes.value])

(***************************************************************************)
(* Inputs                                                                  *)
(***************************************************************************)
NumKeys == 3
MaxSpacing == 2
MaxAxcodes == 3
MaxCodeLen == 3

Range(f) == {f[x] : x \in DOMAIN f}

KeyLetters == <<"A", "B", "C", "D", "E", "F", "G", "H">>
Keys == {None} \cup {PyStr(<<KeyLetters[i]>>) : i \in 1..NumKeys}

\* the six axis letters and one letter that is none of them
AxisLetters == {"R", "L", "A", "P", "I", "S"}
Letters == AxisLetters \cup {"X"}
OpposingPairs == {{"R", "L"}, {"A", "P"}, {"I", "S"}}
\* the valid orientation strings: one letter from each opposing pair, in any order
ValidAxCodes ==
    {s \in [1..3 -> AxisLetters] : \A pr \in OpposingPairs : \E i \in 1..3 : s[i] \in pr}
\* what the model passes to itk_orientation_code
AxCodeInputs == [1..3 -> Letters] \cup [1..2 -> Letters]
\* the integers the model looks up in codes_str_dict
CodeInputs ==
    {0} \cup {itk_orientation_code(s).value : s \in [1..3 -> AxisLetters]}

\* matrices of floats from matrices of integers over a common denominator
Over(A, den) ==
    Array([i \in 1..Len(A) |-> Array([j \in 1..Len(A[i]) |-> Frac(A[i][j], den)])])
VecOver(v, den) == Array([i \in 1..Len(v) |-> Frac(v[i], den)])

\* directions of a 2-d space: the identity, a quarter turn, a reflection, a
\* rotation with rational entries, and a matrix that is not orthonormal
Directions2 ==
    { Over(<<<<1, 0>>, <<0, 1>>>>, 1),
      Over(<<<<0, -1>>, <<1, 0>>>>, 1),
      Over(<<<<-1, 0>>, <<0, 1>>>>, 1),
      Over(<<<<3, -4>>, <<4, 3>>>>, 5),
      Over(<<<<3, 0>>, <<4, 1>>>>, 1) }
Directions3 ==
    { Over(<<<<1, 0, 0>>, <<0, 1, 0>>, <<0, 0, 1>>>>, 1),
      Over(<<<<0, 0, 1>>, <<1, 0, 0>>, <<0, -1, 0>>>>, 1) }
Directions(d) == IF d = 2 THEN Directions2 ELSE Directions3

SpacingVals == (-MaxSpacing)..MaxSpacing
SpacingVecs(d) ==
    IF d = 2 THEN {VecOver(v, 1) : v \in [1..2 -> SpacingVals]}
    ELSE { VecOver(<<1, 1, 1>>, 1), VecOver(<<2, 1, 1>>, 1),
           VecOver(<<33, 100, 33>>, 100), VecOver(<<-1, 2, 0>>, 1) }

Origins(d) ==
    IF d = 2 THEN {VecOver(<<0, 0>>, 1), VecOver(<<-3, 5>>, 2)}
    ELSE {VecOver(<<0, 0, 0>>, 1), VecOver(<<-9030, 1000, 144>>, 100)}

\* the index vectors the model passes to index2coord
IndexVectors(d) ==
    IF d = 2 THEN {VecOver(<<0, 0>>, 1), VecOver(<<1, 2>>, 1), VecOver(<<-1, 3>>, 1)}
    ELSE {VecOver(<<0, 0, 0>>, 1), VecOver(<<4, 0, 9>>, 1)}

\* an array is orthonormal when its columns are unit vectors orthogonal to
\* one another
Transpose(A) == Array([j \in 1..NCols(A) |-> Array([i \in 1..NRows(A) |-> A[i][j]])])
IsOrthonormal(A) == MatMul(Transpose(A), A) = Eye(Len(A))

\* raw (d+1) x (d+1) matrices: those the components above give, a matrix with
\* a zero column, one with columns that are not orthogonal, and a 4 x 4 one
\* with a zero column
RawMatrices ==
    {construct_affine(D, VecOver(<<2, 1>>, 1), o) : D \in Directions2, o \in Origins(2)}
    \cup {construct_affine(D, VecOver(<<2, 1, 1>>, 1), o) : D \in Directions3, o \in Origins(3)}
    \cup { Over(<<<<0, 0, 1>>, <<0, 2, 0>>, <<0, 0, 1>>>>, 1),
           Over(<<<<3, 0, 1>>, <<4, -2, 0>>, <<0, 0, 1>>>>, 1),
           Over(<<<<1, 0, 0, 5>>, <<0, 0, 0, 0>>, <<0, 0, 3, 0>>, <<0, 0, 0, 1>>>>, 1) }

\* the orientation strings and None entries the model passes to convert_nib_itk
AxcodeVals ==
    { None, PyStr(<<"L", "P", "I">>), PyStr(<<"R", "A", "S">>), PyStr(<<"R", "A", "X">>) }
AxcodeLists == UNION {[1..n -> AxcodeVals] : n \in 0..MaxAxcodes}

\* what the model passes to inv_axcodes: None and the strings of at most
\* MaxCodeLen letters, the empty string included
InvAxcodesInputs == {None} \cup {PyStr(s) : s \in UNION {[1..n -> Letters] : n \in 0..MaxCodeLen}}

\* a plain array, or an Affine, as an argument of convert_nib_itk
PlainArray(m) == [isAffine |-> FALSE, obj |-> NoAffine, matrix |-> m]
AffineArg(a) == [isAffine |-> TRUE, obj |-> a, matrix |-> a.matrix]
ConvertAffines ==
    {PlainArray(m) : m \in RawMatrices}
    \cup {AffineArg(Affine__init__(m, <<>>, <<>>, <<>>)) : m \in RawMatrices}

(***************************************************************************)
(* The state at program start and the operations                           *)
(***************************************************************************)
Init ==
    /\ twd = EmptyDict
    /\ codes_str_dict = EmptyDict
    /\ pos = -1
    /\ aff = NoAffine
    /\ held = <<>>
    /\ AXES_INV = EmptyDict
    /\ conv = <<>>
    /\ op = <<"start">>
    /\ raised = NoError
    /\ ret = None

\* ---- a TwoWayDict under test ----
Set(k, v) ==
    LET r == TwoWayDict__setitem__(twd, k, v) IN
    /\ twd' = r.dict
    /\ op' = <<"__setitem__", k, v>>
    /\ raised' = r.raised
    /\ ret' = None
    /\ UNCHANGED <<codes_str_dict, pos, aff, held, AXES_INV, conv>>

Delete(k) ==
    LET r == TwoWayDict__delitem__(twd, k) IN
    /\ twd' = r.dict
    /\ op' = <<"__delitem__", k>>
    /\ raised' = r.raised
    /\ ret' = None
    /\ UNCHANGED <<codes_str_dict, pos, aff, held, AXES_INV, conv>>

Get(k) ==
    LET r == TwoWayDict__getitem__(twd, k) IN
    /\ op' = <<"__getitem__", k>>
    /\ raised' = r.raised
    /\ ret' = r.value
    /\ UNCHANGED <<twd, codes_str_dict, pos, aff, held, AXES_INV, conv>>

Length ==
    /\ op' = <<"__len__">>
    /\ raised' = NoError
    /\ ret' = PyInt(TwoWayDict__len__(twd))
    /\ UNCHANGED <<twd, codes_str_dict, pos, aff, held, AXES_INV, conv>>

NextDict ==
    \/ \E k, v \in Keys : Set(k, v)
    \/ \E k \in Keys : Delete(k)
    \/ \E k \in Keys : Get(k)
    \/ Length

SpecDict == Init /\ [][NextDict]_vars

(***************************************************************************)
(* Claims about TwoWayDict (SpecDict)                                      *)
(***************************************************************************)
Symmetric(d) == \A k \in DOMAIN d : DictHas(d, d[k]) /\ d[d[k]] = k

\* C4: in every state of a TwoWayDict reached from the empty mapping by
\* __setitem__ and __delitem__ calls (those that raise included), the mapping
\* is symmetric: k maps to v exactly when v maps to k.
C4_Symmetric == Symmetric(twd)

\* C4 witness: a __delitem__ has removed a pair and a pair of two different
\* keys is still stored.
C4_Witness ==
    /\ op[1] = "__delitem__"
    /\ raised = NoError
    /\ \E k \in DOMAIN twd : twd[k] # k

\* what C5 says set(k, v) yields from the mapping d
SetResult(d, k, v) ==
    LET removed == {k, v} \cup (IF DictHas(d, k) THEN {d[k]} ELSE {})
                          \cup (IF DictHas(d, v) THEN {d[v]} ELSE {})
    IN  [x \in ((DOMAIN d) \ removed) \cup {k, v} |->
            IF x = k THEN v ELSE IF x = v THEN k ELSE d[x]]

\* C5: in any state, set(k, v) completes and yields the previous mapping minus
\* every entry whose key is k, v, the former partner of k or the former partner
\* of v, plus the entries k->v and v->k.
C5_SetCompletes ==
    [][op'[1] = "__setitem__"
        => (raised' = NoError /\ twd' = SetResult(twd, op'[2], op'[3]))]_vars

\* C5, where it does hold: from a state that stores neither k nor v as a
\* self-pair, set(k, v) completes with the mapping C5 describes.
SetFromPairsOnly ==
    [][(op'[1] = "__setitem__"
        /\ \A x \in {op'[2], op'[3]} : DictHas(twd, x) => twd[x] # x)
        => (raised' = NoError /\ twd' = SetResult(twd, op'[2], op'[3]))]_vars

\* the connections a mapping stores: the pairs {k, v} with k -> v
Connections(d) == {{k, d[k]} : k \in DOMAIN d}

\* C14: after any sequence of __setitem__ and __delitem__ calls (a key paired
\* with itself included), len() is the number of connections stored, and that
\* is exactly half the number of stored entries.
C14_LenCountsPairs ==
    op[1] = "__len__" =>
        /\ ret = PyInt(Cardinality(Connections(twd)))
        /\ 2 * ret.n = Cardinality(DOMAIN twd)

\* C14, where it does hold: the same, for a mapping that pairs no key with
\* itself.
LenCountsPairsNoSelf ==
    (op[1] = "__len__" /\ \A k \in DOMAIN twd : twd[k] # k) =>
        /\ ret = PyInt(Cardinality(Connections(twd)))
        /\ 2 * ret.n = Cardinality(DOMAIN twd)

(***************************************************************************)
(* The import of itk_orientation and the calls of its encoder and table    *)
(* (SpecOrient)                                                            *)
(***************************************************************************)
NumAxCodes == Len(ax_codes_iter)

\* line 52: codes_str_dict[None] = None
ImportNone ==
    /\ pos = -1
    /\ LET r == TwoWayDict__setitem__(codes_str_dict, None, None) IN
       /\ codes_str_dict' = r.dict
       /\ raised' = r.raised
       /\ pos' = IF r.raised = NoError THEN 0 ELSE pos
    /\ op' = <<"import itk_orientation", None>>
    /\ ret' = None
    /\ UNCHANGED <<twd, aff, held, AXES_INV, conv>>

\* lines 54-58: one round of the loop over _ax_codes_iter; an exception ends
\* the import
ImportAxCode ==
    /\ pos \in 0..(NumAxCodes - 1)
    /\ raised = NoError
    /\ LET ax_code_str == ax_codes_iter[pos + 1]
           code == itk_orientation_code(ax_code_str)
           r == IF code.raised # NoError THEN Raise(codes_str_dict, code.raised)
                ELSE TwoWayDict__setitem__(codes_str_dict, PyStr(ax_code_str),
                                           PyInt(code.value))
       IN  /\ codes_str_dict' = r.dict
           /\ raised' = r.raised
           /\ pos' = IF r.raised = NoError THEN pos + 1 ELSE pos
           /\ op' = <<"import itk_orientation", PyStr(ax_code_str)>>
    /\ ret' = None
    /\ UNCHANGED <<twd, aff, held, AXES_INV, conv>>

Imported == pos = NumAxCodes

\* a call of itk_orientation_code(ax_code) once the module is imported
Encode(ax_code) ==
    /\ Imported
    /\ LET r == itk_orientation_code(ax_code) IN
       /\ raised' = r.raised
       /\ ret' = IF r.raised = NoError THEN PyInt(r.value) ELSE None
    /\ op' = <<"itk_orientation_code", ax_code>>
    /\ UNCHANGED <<twd, codes_str_dict, pos, aff, held, AXES_INV, conv>>

\* a lookup codes_str_dict[key] once the module is imported
Decode(key) ==
    /\ Imported
    /\ LET r == TwoWayDict__getitem__(codes_str_dict, key) IN
       /\ raised' = r.raised
       /\ ret' = r.value
    /\ op' = <<"codes_str_dict", key>>
    /\ UNCHANGED <<twd, codes_str_dict, pos, aff, held, AXES_INV, conv>>

NextOrient ==
    \/ ImportNone
    \/ ImportAxCode
    \/ \E ax_code \in AxCodeInputs : Encode(ax_code)
    \/ \E key \in {None} \cup {PyStr(s) : s \in [1..3 -> Letters]}
                         \cup {PyInt(c) : c \in CodeInputs} : Decode(key)

SpecOrient == Init /\ [][NextOrient]_vars

\* C2: once the table is built, for every one of the 48 valid orientation
\* strings s the encoder returns an integer, the table maps that integer to s
\* and maps s to that integer.
C2_DecodeEncode ==
    Imported =>
        /\ Cardinality(ValidAxCodes) = 48
        /\ \A s \in ValidAxCodes :
            LET code == itk_orientation_code(s) IN
            /\ code.raised = NoError
            /\ TwoWayDict__getitem__(codes_str_dict, PyInt(code.value))
                   = Returns(PyStr(s))
            /\ TwoWayDict__getitem__(codes_str_dict, PyStr(s))
                   = Returns(PyInt(code.value))

\* C2 witness: the import is over and a lookup of the code of "LPI" in the
\* table has returned "LPI".
C2_Witness ==
    /\ Imported
    /\ op = <<"codes_str_dict", PyInt(itk_orientation_code(<<"L", "P", "I">>).value)>>
    /\ raised = NoError
    /\ ret = PyStr(<<"L", "P", "I">>)

\* C3: for every 3-letter input that is not a valid orientation string, the
\* encoder raises and returns no integer.
C3_InvalidRaises ==
    (op[1] = "itk_orientation_code" /\ Len(op[2]) = 3 /\ op[2] \notin ValidAxCodes)
        => (raised # NoError /\ ret = None)

\* C3, the part that holds: a 3-letter input with a letter outside
\* {R,L,A,P,I,S} makes the encoder raise.
ForeignLetterRaises ==
    (op[1] = "itk_orientation_code" /\ \E i \in 1..Len(op[2]) : op[2][i] \notin AxisLetters)
        => (raised = AttributeError /\ ret = None)

\* the value of an axis letter, as the specification tabulates it
LetterValue(c) ==
    CASE c = "R" -> 2 [] c = "L" -> 3 [] c = "P" -> 4
      [] c = "A" -> 5 [] c = "I" -> 8 [] c = "S" -> 9

\* C18: for a valid orientation string s1 s2 s3 the encoder returns
\* v(s1) + v(s2) * 2^8 + v(s3) * 2^16 with R=2, L=3, P=4, A=5, I=8, S=9; every
\* letter value fits in 8 bits, the letter of axis i is recovered as
\* (code >> 8(i-1)) mod 2^8, and the code is not the INVALID code 0.
C18_PackedFields ==
    (op[1] = "itk_orientation_code" /\ op[2] \in ValidAxCodes)
        => /\ raised = NoError
           /\ ret.t = "int"
           /\ ret.n = LetterValue(op[2][1]) + LetterValue(op[2][2]) * (2 ^ 8)
                          + LetterValue(op[2][3]) * (2 ^ 16)
           /\ \A i \in 1..3 :
                /\ LetterValue(op[2][i]) \in 1..(2 ^ 8 - 1)
                /\ (ret.n \div (2 ^ (8 * (i - 1)))) % (2 ^ 8) = LetterValue(op[2][i])
           /\ ret.n # 0

\* C18 witness: the encoder has returned 3 + 4 * 2^8 + 8 * 2^16 for "LPI".
C18_Witness ==
    /\ op = <<"itk_orientation_code", <<"L", "P", "I">>>>
    /\ raised = NoError
    /\ ret = PyInt(525315)

\* the strings and the integers a table stores
StoredStrings(d) == {k.s : k \in {x \in DOMAIN d : x.t = "str"}}
StoredCodes(d) == {k.n : k \in {x \in DOMAIN d : x.t = "int"}}

\* C11: while the table is built no insertion evicts an earlier entry (after
\* the None entry and n strings it holds None -> None and 2n more entries),
\* and once it is built it holds exactly the 48 strings made of one letter of
\* each opposing pair, exactly 48 distinct integer codes, each string paired
\* with an integer, and the entry None <-> None.
C11_TableComplete ==
    /\ pos >= 0 =>
        /\ DictHas(codes_str_dict, None) /\ codes_str_dict[None] = None
        /\ Cardinality(DOMAIN codes_str_dict) = 1 + 2 * pos
    /\ Imported =>
        /\ StoredStrings(codes_str_dict) = ValidAxCodes
        /\ Cardinality(StoredStrings(codes_str_dict)) = 48
        /\ Cardinality(StoredCodes(codes_str_dict)) = 48
        /\ \A s \in ValidAxCodes : codes_str_dict[PyStr(s)].t = "int"

\* C11 witness: the last of the 48 insertions has just been made and the
\* table holds 97 entries.
C11_Witness ==
    /\ Imported
    /\ op = <<"import itk_orientation", PyStr(ax_codes_iter[NumAxCodes])>>
    /\ raised = NoError
    /\ Cardinality(DOMAIN codes_str_dict) = 97

(***************************************************************************)
(* An Affine: its construction and its property setters (SpecAffine)       *)
(***************************************************************************)
Dim(self) == Len(self.matrix) - 1

\* Affine(direction=direction, spacing=spacing, origin=origin)
Construct(direction, spacing, origin) ==
    /\ aff = NoAffine
    /\ aff' = Affine__init__(NoMatrix, direction, spacing, origin)
    /\ op' = <<"Affine", NoMatrix, direction, spacing, origin>>
    /\ raised' = NoError
    /\ ret' = None
    /\ UNCHANGED <<twd, codes_str_dict, pos, held, AXES_INV, conv>>

\* Affine(affine)
ConstructFromMatrix(affine) ==
    /\ aff = NoAffine
    /\ aff' = Affine__init__(affine, <<>>, <<>>, <<>>)
    /\ op' = <<"Affine", affine, <<>>, <<>>, <<>>>>
    /\ raised' = NoError
    /\ ret' = None
    /\ UNCHANGED <<twd, codes_str_dict, pos, held, AXES_INV, conv>>

\* affine.spacing = value
SetSpacing(value) ==
    /\ aff # NoAffine
    /\ Len(value) = Dim(aff)
    /\ aff' = Affine_set_spacing(aff, value)
    /\ op' = <<"spacing", value>>
    /\ raised' = NoError
    /\ ret' = None
    /\ UNCHANGED <<twd, codes_str_dict, pos, held, AXES_INV, conv>>

\* affine.direction = value
SetDirection(value) ==
    /\ aff # NoAffine
    /\ Len(value) = Dim(aff)
    /\ aff' = Affine_set_direction(aff, value)
    /\ op' = <<"direction", value>>
    /\ raised' = NoError
    /\ ret' = None
    /\ UNCHANGED <<twd, codes_str_dict, pos, held, AXES_INV, conv>>

\* affine.origin = value
SetOrigin(value) ==
    /\ aff # NoAffine
    /\ Len(value) = Dim(aff)
    /\ aff' = Affine_set_origin(aff, value)
    /\ op' = <<"origin", value>>
    /\ raised' = NoError
    /\ ret' = None
    /\ UNCHANGED <<twd, codes_str_dict, pos, held, AXES_INV, conv>>

\* affine.clone(); the clone is what the call returns
Clone ==
    /\ aff # NoAffine
    /\ ret' = Affine_clone(aff)
    /\ op' = <<"clone">>
    /\ raised' = NoError
    /\ UNCHANGED <<twd, codes_str_dict, pos, aff, held, AXES_INV, conv>>

\* affine.index2coord(index_vector); the coordinates are what the call returns
Index2Coord(index_vector) ==
    /\ aff # NoAffine
    /\ Len(index_vector) = Dim(aff)
    /\ ret' = Affine_index2coord(aff, index_vector)
    /\ op' = <<"index2coord", index_vector>>
    /\ raised' = NoError
    /\ UNCHANGED <<twd, codes_str_dict, pos, aff, held, AXES_INV, conv>>

Dims == {2, 3}

NextAffine ==
    \/ \E d \in Dims : \E direction \in Directions(d), spacing \in SpacingVecs(d),
                          origin \in Origins(d) : Construct(direction, spacing, origin)
    \/ \E affine \in RawMatrices : ConstructFromMatrix(affine)
    \/ \E d \in Dims : \E value \in SpacingVecs(d) : SetSpacing(value)
    \/ \E d \in Dims : \E value \in Directions(d) : SetDirection(value)
    \/ \E d \in Dims : \E value \in Origins(d) : SetOrigin(value)
    \/ Clone
    \/ \E d \in Dims : \E index_vector \in IndexVectors(d) : Index2Coord(index_vector)

SpecAffine == Init /\ [][NextAffine]_vars

(***************************************************************************)
(* Claims about Affine (SpecAffine)                                        *)
(***************************************************************************)
VecFinite(v) == \A i \in 1..Len(v) : IsFinite(v[i])
MatFinite(A) == \A i \in 1..Len(A) : VecFinite(A[i])
AllFinite(self) ==
    MatFinite(self.matrix) /\ MatFinite(self._direction) /\ VecFinite(self._spacing)
Positive(v) == \A i \in 1..Len(v) : IsFinite(v[i]) /\ v[i][1] > 0
BottomRow(A) == A[Len(A)]

\* C1: for an Affine built from components or from a raw matrix, after any
\* sequence of the spacing, direction and origin setters (negative spacing
\* entries included), the upper-left d x d block of the matrix equals
\* direction @ diag(spacing) for the direction and spacing the getters return.
\* It is stated here for the states without nan or inf only, where equality of
\* floats is plain.
C1_Decomposition ==
    (aff # NoAffine /\ AllFinite(aff))
        => MatEq(Affine_m_matrix(aff),
                 MatMul(Affine_direction(aff), Diag(Affine_spacing(aff))))

\* C7: the spacing the getter returns has no negative entry, in every state
\* of an Affine, however it was built.
C7_SpacingNonNegative ==
    aff # NoAffine => \A j \in 1..Len(Affine_spacing(aff)) : Affine_spacing(aff)[j][1] >= 0

\* C8: assigning spacing new to an Affine with old spacing s (no entry of s
\* zero) multiplies column j of M by new_j / s_j for every axis j, makes the
\* getter return abs(new), and leaves the cached direction, the origin column
\* and the bottom row as they were.
C8_SetSpacingFrame ==
    [][(op'[1] = "spacing" /\ aff # NoAffine
            /\ \A j \in 1..Dim(aff) : IsFinite(aff._spacing[j]) /\ aff._spacing[j][1] # 0)
        => /\ \A i, j \in 1..Dim(aff) :
                aff'.matrix[i][j]
                    = FMul(aff.matrix[i][j], FDiv(op'[2][j], aff._spacing[j]))
           /\ Affine_spacing(aff') = VecAbs(op'[2])
           /\ Affine_direction(aff') = Affine_direction(aff)
           /\ Affine_origin(aff') = Affine_origin(aff)
           /\ BottomRow(aff'.matrix) = BottomRow(aff.matrix)]_vars

\* C8, where it does hold: the same, for an Affine whose matrix holds no nan
\* and no inf.
SetSpacingFrameFinite ==
    [][(op'[1] = "spacing" /\ aff # NoAffine /\ MatFinite(aff.matrix)
            /\ \A j \in 1..Dim(aff) : IsFinite(aff._spacing[j]) /\ aff._spacing[j][1] # 0)
        => /\ \A i, j \in 1..Dim(aff) :
                aff'.matrix[i][j]
                    = FMul(aff.matrix[i][j], FDiv(op'[2][j], aff._spacing[j]))
           /\ Affine_spacing(aff') = VecAbs(op'[2])
           /\ Affine_direction(aff') = Affine_direction(aff)
           /\ Affine_origin(aff') = Affine_origin(aff)
           /\ BottomRow(aff'.matrix) = BottomRow(aff.matrix)]_vars

\* the Affine is as Affine(direction=D, spacing=s, origin=o) builds it, for an
\* orthonormal D and a positive s
BuiltFromOrthonormal(self) ==
    /\ self # NoAffine
    /\ IsOrthonormal(Affine_direction(self))
    /\ Positive(Affine_spacing(self))
    /\ self = Affine__init__(NoMatrix, Affine_direction(self), Affine_spacing(self),
                             Affine_origin(self))

\* C9: for an orthonormal direction D, a positive spacing s and an origin o,
\* decomposing the matrix that the construction from (D, s, o) built gives the
\* components back: direction D, spacing s, origin o.
C9_RoundTrip ==
    (op[1] = "clone" /\ BuiltFromOrthonormal(aff))
        => /\ MatEq(Affine_direction(ret), Affine_direction(aff))
           /\ VecEq(Affine_spacing(ret), Affine_spacing(aff))
           /\ VecEq(Affine_origin(ret), Affine_origin(aff))

\* C9 witness: the matrix built from a rotation that is no signed permutation
\* and a spacing that is not all ones has been decomposed.
C9_Witness ==
    /\ op[1] = "clone"
    /\ BuiltFromOrthonormal(aff)
    /\ Affine_direction(aff) = Over(<<<<3, -4>>, <<4, 3>>>>, 5)
    /\ Affine_spacing(aff) = VecOver(<<2, 1>>, 1)
    /\ Affine_origin(aff) = VecOver(<<-3, 5>>, 2)
    /\ ret = aff

HasZeroColumn(A) == \E j \in 1..NCols(A) : \A i \in 1..NRows(A) : A[i][j] = F(0)

\* C10: constructing an Affine from a raw matrix whose upper-left block has a
\* column of zero norm fails, and produces no Affine.
C10_DegenerateFails ==
    (op[1] = "Affine" /\ op[2] # NoMatrix /\ HasZeroColumn(m_key(op[2])))
        => (raised # NoError /\ aff = NoAffine)

\* C15: clone() of an Affine in any state returns an Affine whose matrix,
\* cached direction and cached spacing are equal to those of the original.
\* It is stated for an original without nan or inf, where equality of floats
\* is plain.
C15_CloneExact ==
    (op[1] = "clone" /\ AllFinite(aff))
        => /\ MatEq(ret.matrix, aff.matrix)
           /\ MatEq(Affine_direction(ret), Affine_direction(aff))
           /\ VecEq(Affine_spacing(ret), Affine_spacing(aff))

\* the Affine of the class docstring: direction np.eye(3), spacing
\* [0.33, 1, 0.33], origin [-90.3, 10, 1.44]
DocstringAffine ==
    Affine__init__(NoMatrix, Eye(3), VecOver(<<33, 100, 33>>, 100),
                   VecOver(<<-9030, 1000, 144>>, 100))

\* C16: index2coord(x) returns M x + origin for the current M and origin,
\* entry by entry, and leaves the Affine (matrix, direction, spacing) as it
\* was; on the docstring's Affine the index [4, 0, 9] gives
\* [-88.98, 10, 4.41].
C16_Index2Coord ==
    [][op'[1] = "index2coord"
        => /\ aff' = aff
           /\ Len(ret') = Dim(aff)
           /\ \A i \in 1..Dim(aff) :
                ret'[i] = FAdd(FSum([j \in 1..Dim(aff) |->
                                       FMul(aff.matrix[i][j], op'[2][j])]),
                               aff.matrix[i][Dim(aff) + 1])
           /\ (aff = DocstringAffine /\ op'[2] = VecOver(<<4, 0, 9>>, 1))
                => ret' = VecOver(<<-8898, 1000, 441>>, 100)]_vars

\* C16 witness: index2coord([4, 0, 9]) on the docstring's Affine has returned
\* [-88.98, 10, 4.41].
C16_Witness ==
    /\ op = <<"index2coord", VecOver(<<4, 0, 9>>, 1)>>
    /\ aff = DocstringAffine
    /\ ret = VecOver(<<-8898, 1000, 441>>, 100)

(***************************************************************************)
(* The import of convert_nib_itk and two conversions in a row              *)
(* (SpecConvert)                                                           *)
(***************************************************************************)

\* lines 41-44: AXES_INV["R"] = "L", AXES_INV["A"] = "P", AXES_INV["S"] = "I",
\* one assignment a step
ImportAxesInv ==
    /\ TwoWayDict__len__(AXES_INV) < Len(AXES_INV_items)
    /\ raised = NoError
    /\ LET item == AXES_INV_items[TwoWayDict__len__(AXES_INV) + 1]
           r == TwoWayDict__setitem__(AXES_INV, PyStr(<<item[1]>>), PyStr(<<item[2]>>))
       IN  /\ AXES_INV' = r.dict
           /\ raised' = r.raised
           /\ op' = <<"import convert_nib_itk", PyStr(<<item[1]>>)>>
    /\ ret' = None
    /\ UNCHANGED <<twd, codes_str_dict, pos, aff, held, conv>>

\* the module is imported and no conversion was made yet: a behaviour makes
\* one pair of conversions
ConvertImported ==
    /\ TwoWayDict__len__(AXES_INV) = Len(AXES_INV_items)
    /\ op[1] = "import convert_nib_itk"
    /\ raised = NoError

\* new_affine, new_axcodes = convert_nib_itk(affine, axcodes)
Convert(affine, axcodes) ==
    /\ ConvertImported
    /\ held' = [affine |-> affine, axcodes |-> axcodes]
    /\ LET r == convert_nib_itk(AXES_INV, affine, axcodes) IN
       /\ raised' = r.raised
       /\ conv' = IF r.raised = NoError THEN r.value ELSE <<>>
    /\ op' = <<"convert_nib_itk", 1>>
    /\ ret' = None
    /\ UNCHANGED <<twd, codes_str_dict, pos, aff, AXES_INV>>

\* convert_nib_itk(new_affine, new_axcodes), on what the first call returned
ConvertBack ==
    /\ op = <<"convert_nib_itk", 1>>
    /\ raised = NoError
    /\ LET r == convert_nib_itk(AXES_INV, conv.affine, conv.axcodes) IN
       /\ raised' = r.raised
       /\ conv' = IF r.raised = NoError THEN r.value ELSE <<>>
    /\ op' = <<"convert_nib_itk", 2>>
    /\ ret' = None
    /\ UNCHANGED <<twd, codes_str_dict, pos, aff, held, AXES_INV>>

\* a call of inv_axcodes(axcodes) once the module is imported
InvAxcodes(axcodes) ==
    /\ TwoWayDict__len__(AXES_INV) = Len(AXES_INV_items)
    /\ op[1] \in {"import convert_nib_itk", "inv_axcodes"}
    /\ LET r == inv_axcodes(AXES_INV, axcodes) IN
       /\ raised' = r.raised
       /\ ret' = r.value
    /\ op' = <<"inv_axcodes", axcodes>>
    /\ UNCHANGED <<twd, codes_str_dict, pos, aff, held, AXES_INV, conv>>

NextConvert ==
    \/ ImportAxesInv
    \/ \E axcodes \in InvAxcodesInputs : InvAxcodes(axcodes)
    \/ \E affine \in ConvertAffines, axcodes \in AxcodeLists : Convert(affine, axcodes)
    \/ ConvertBack

SpecConvert == Init /\ [][NextConvert]_vars

\* an orientation string: letters of {R,L,A,P,I,S} only
IsOrientation(axcode) == axcode # None /\ \A i \in 1..Len(axcode.s) : axcode.s[i] \in AxisLetters
OrientationsOrNone(axcodes) ==
    \A i \in 1..Len(axcodes) : axcodes[i] = None \/ IsOrientation(axcodes[i])

\* C6: for a 3 x 3 or 4 x 4 affine (a plain array or an Affine) and a list of
\* orientation strings and None entries, the second of two conversions in a
\* row returns the matrix and the list the first one was given: same entries,
\* same length, same order, None entries kept.
C6_ConvertTwice ==
    (held # <<>> /\ OrientationsOrNone(held.axcodes))
        => /\ raised = NoError
           /\ op = <<"convert_nib_itk", 2>>
                => /\ MatEq(conv.affine.matrix, held.affine.matrix)
                   /\ conv.affine.isAffine = held.affine.isAffine
                   /\ conv.axcodes = held.axcodes

\* C6 witness: the list ["LPI", None, "RAS"] and a 4 x 4 Affine have been
\* converted twice, and in between the list was ["RAS", None, "LPI"].
C6_Witness ==
    /\ op = <<"convert_nib_itk", 2>>
    /\ raised = NoError
    /\ held.axcodes = <<PyStr(<<"L", "P", "I">>), None, PyStr(<<"R", "A", "S">>)>>
    /\ held.affine.isAffine
    /\ Len(held.affine.matrix) = 4
    /\ conv.axcodes = held.axcodes
    /\ inv_axcodes_list(AXES_INV, held.axcodes).value
           = <<PyStr(<<"R", "A", "S">>), None, PyStr(<<"L", "P", "I">>)>>

\* an array with its rows 0 and 1 negated, a vector with its components 0 and
\* 1 negated
NegateRows01(A) ==
    [i \in 1..Len(A) |-> [j \in 1..Len(A[i]) |-> IF i <= 2 THEN FNeg(A[i][j]) ELSE A[i][j]]]
NegateEntries01(v) == [i \in 1..Len(v) |-> IF i <= 2 THEN FNeg(v[i]) ELSE v[i]]

\* C17: the conversion of a 3 x 3 or 4 x 4 affine returns the matrix with rows
\* 0 and 1 negated and the other rows unchanged, as a plain array for a plain
\* array and as an Affine for an Affine; for an Affine of orthonormal
\* direction D, positive spacing s and origin o the result has spacing s,
\* direction D with rows 0 and 1 negated and origin o with components 0 and 1
\* negated.
C17_ConvertAffine ==
    (op = <<"convert_nib_itk", 1>> /\ OrientationsOrNone(held.axcodes))
        => /\ raised = NoError
           /\ conv.affine.isAffine = held.affine.isAffine
           /\ MatEq(conv.affine.matrix, NegateRows01(held.affine.matrix))
           /\ (held.affine.isAffine /\ BuiltFromOrthonormal(held.affine.obj))
                => /\ MatEq(conv.affine.obj.matrix, NegateRows01(held.affine.matrix))
                   /\ VecEq(Affine_spacing(conv.affine.obj),
                            Affine_spacing(held.affine.obj))
                   /\ MatEq(Affine_direction(conv.affine.obj),
                            NegateRows01(Affine_direction(held.affine.obj)))
                   /\ VecEq(Affine_origin(conv.affine.obj),
                            NegateEntries01(Affine_origin(held.affine.obj)))

\* C17 witness: a 2-d Affine whose direction is a rotation that is no signed
\* permutation, with spacing [2, 1] and origin [-1.5, 2.5], has been
\* converted, and the result has the negated direction and origin.
C17_Witness ==
    /\ op = <<"convert_nib_itk", 1>>
    /\ raised = NoError
    /\ held.affine.isAffine
    /\ BuiltFromOrthonormal(held.affine.obj)
    /\ Affine_direction(held.affine.obj) = Over(<<<<3, -4>>, <<4, 3>>>>, 5)
    /\ Affine_spacing(held.affine.obj) = VecOver(<<2, 1>>, 1)
    /\ Affine_origin(held.affine.obj) = VecOver(<<-3, 5>>, 2)
    /\ Affine_direction(conv.affine.obj) = Over(<<<<-3, 4>>, <<-4, -3>>>>, 5)
    /\ Affine_origin(conv.affine.obj) = VecOver(<<3, -5>>, 2)

\* C12: in the imported AXES_INV every one of the six axis letters has an
\* inverse that is another axis letter and whose inverse is the letter again,
\* and the table holds exactly the three pairs R <-> L, A <-> P, I <-> S
\* (length 3, no other key).
C12_AxesInvPairs ==
    TwoWayDict__len__(AXES_INV) = Len(AXES_INV_items) =>
        /\ \A c \in AxisLetters :
            LET inv == TwoWayDict__getitem__(AXES_INV, PyStr(<<c>>)) IN
            /\ inv.raised = NoError
            /\ inv.value # PyStr(<<c>>)
            /\ TwoWayDict__getitem__(AXES_INV, inv.value) = Returns(PyStr(<<c>>))
        /\ DOMAIN AXES_INV = {PyStr(<<c>>) : c \in AxisLetters}
        /\ {{k.s[1], AXES_INV[k].s[1]} : k \in DOMAIN AXES_INV} = OpposingPairs
        /\ TwoWayDict__len__(AXES_INV) = 3

\* C12 witness: the table is imported and the inversion of the single letter
\* I has returned S.
C12_Witness ==
    /\ op = <<"inv_axcodes", PyStr(<<"I">>)>>
    /\ raised = NoError
    /\ ret = PyStr(<<"S">>)

\* the inverse of an axis letter, as the specification tabulates it
InverseLetter(c) ==
    CASE c = "R" -> "L" [] c = "L" -> "R" [] c = "A" -> "P"
      [] c = "P" -> "A" [] c = "I" -> "S" [] c = "S" -> "I"

\* C13: inv_axcodes(None) returns None; for a string over {R,L,A,P,I,S} it
\* returns a string of the same length whose i-th letter is the inverse of the
\* i-th letter of the argument; for a string with any other character it
\* raises and returns nothing.
C13_InvAxcodes ==
    op[1] = "inv_axcodes" =>
        IF op[2] = None THEN raised = NoError /\ ret = None
        ELSE IF \A i \in 1..Len(op[2].s) : op[2].s[i] \in AxisLetters
             THEN /\ raised = NoError
                  /\ ret.t = "str"
                  /\ Len(ret.s) = Len(op[2].s)
                  /\ \A i \in 1..Len(op[2].s) : ret.s[i] = InverseLetter(op[2].s[i])
             ELSE raised # NoError /\ ret = None

\* C13 witness: inv_axcodes("SPL") has returned "IAR".
C13_Witness ==
    /\ op = <<"inv_axcodes", PyStr(<<"S", "P", "L">>)>>
    /\ raised = NoError
    /\ ret = PyStr(<<"I", "A", "R">>)

(***************************************************************************)
(* The whole: the four parts share no state, and a behaviour exercises the *)
(* part it began with                                                      *)
(***************************************************************************)
DictOps == {"__setitem__", "__delitem__", "__getitem__", "__len__"}
OrientOps == {"import itk_orientation", "itk_orientation_code", "codes_str_dict"}
AffineOps == {"Affine", "spacing", "direction", "origin", "clone", "index2coord"}
ConvertOps == {"import convert_nib_itk", "inv_axcodes", "convert_nib_itk"}

Next ==
    \/ op[1] \in {"start"} \cup DictOps /\ NextDict
    \/ op[1] \in {"start"} \cup OrientOps /\ NextOrient
    \/ op[1] \in {"start"} \cup AffineOps /\ NextAffine
    \/ op[1] \in {"start"} \cup ConvertOps /\ NextConvert

Spec == Init /\ [][Next]_vars

====
